---- MODULE Spec2Model ----
(***************************************************************************)
(* A model of pg_search's writer server state machine                      *)
(* (src/pg_search/src/writer/index.rs): the per-directory cache of Tantivy *)
(* IndexWriters, the drop_requested set, and the seven requests handled by *)
(* Handler<WriterRequest>::handle.                                         *)
(*                                                                         *)
(* A handler is one atomic action.  Inside the action the handler's        *)
(* statements are applied in order to a record `s` holding the whole       *)
(* state; `s.res` is the handler's result ("ok" or the error that `?`      *)
(* propagated) and `s.calls` lists the collaborator calls it made.         *)
(* The engine (tantivy::IndexWriter) and the directory abstraction         *)
(* (WriterDirectory / SearchIndex) are collaborators whose result at each  *)
(* call is an input chosen by \E.                                          *)
(***************************************************************************)
EXTENDS Integers, Sequences, FiniteSets, TLC

\* ------------------------------------------------------------------ bounds
MaxKey == 2
MaxOps == 3
MaxFields == 1
\* Documents and deletions issued in the runs over two directories.
MaxOpsTwo == 1

Keys == 1..MaxKey
KeyLists == {<<>>} \cup {<<k>> : k \in Keys} \cup {<<1, MaxKey>>}

VARIABLES
    tantivy_writers,  \* Writer.tantivy_writers: directory -> cached IndexWriter
    drop_requested,   \* Writer.drop_requested: set of directories
    disk,             \* what is on disk for each directory
    committed,        \* documents a reader of the directory sees
    live,             \* directory -> number of IndexWriters opened and not yet dropped
    nextUid,          \* identity of the next buffered mutation
    discarded,        \* mutations dropped without being published
    dropSince,        \* DropIndex(d) was requested after the last Abort(d)
    last              \* the last request: op, dir, result, collaborator calls

vars == <<tantivy_writers, drop_requested, disk, committed, live, nextUid,
          discarded, dropSince, last>>

\* The directories requests are addressed to: those the state has an entry for.
Dirs == DOMAIN disk

\* A vacant entry of the HashMap.
NoWriter == [cached |-> FALSE, buf |-> <<>>]

\* A freshly opened IndexWriter: nothing buffered.
NewWriter == [cached |-> TRUE, buf |-> <<>>]

\* The state a handler starts from.
Cur ==
    [tw |-> tantivy_writers, dr |-> drop_requested, disk |-> disk,
     com |-> committed, live |-> live, nextUid |-> nextUid, disc |-> discarded,
     calls |-> <<>>, res |-> "ok"]

\* The handler calls a collaborator.
Call(s, name) == [s EXCEPT !.calls = Append(@, name)]

\* The call just made returned Err(err), which `?` propagates: the error is
\* noted after the call and becomes the handler's result.
Fail(s, err) == [s EXCEPT !.res = err, !.calls = Append(@, err)]

\* The handler's trace names this call (or this error).
Called(calls, name) == \E i \in 1..Len(calls) : calls[i] = name

\* The identities of the mutations of a buffer.
Uids(buf) == {buf[i].uid : i \in 1..Len(buf)}

\* ------------------------------------------------- the engine (IndexWriter)

\* What a reader sees once the mutations of buf are published on top of com.
\* As the engine computes it: every mutation carries an opstamp (its position);
\* a delete of key k removes the documents with key k whose opstamp is smaller.
Visible(com, buf) ==
    LET dels(i) == {j \in (i + 1)..Len(buf) :
                        buf[j].kind = "del" /\ buf[j].key = buf[i].key}
        killed(k) == \E j \in 1..Len(buf) : buf[j].kind = "del" /\ buf[j].key = k
    IN  {doc \in com : ~killed(doc.key)}
        \cup {[key |-> buf[i].key, uid |-> buf[i].uid] :
                i \in {n \in 1..Len(buf) : buf[n].kind = "add" /\ dels(n) = {}}}

\* IndexWriter::add_document
add_document(s, d, key, ok) ==
    LET s1 == Call(s, "add_document")
    IN  IF ok
        THEN [s1 EXCEPT !.tw[d].buf =
                            Append(@, [kind |-> "add", key |-> key, uid |-> s.nextUid]),
                        !.nextUid = @ + 1]
        ELSE Fail(s1, "WriteFailed")

\* IndexWriter::delete_term
delete_term(s, d, key) ==
    [Call(s, "delete_term") EXCEPT
        !.tw[d].buf = Append(@, [kind |-> "del", key |-> key, uid |-> s.nextUid]),
        !.nextUid = @ + 1]

\* IndexWriter::prepare_commit: flush the buffered mutations to segments that
\* no reader sees yet; they stay uncommitted.
prepare_commit(s, d, ok) ==
    LET s1 == Call(s, "prepare_commit")
    IN  IF ok THEN s1 ELSE Fail(s1, "PrepareFailed")

\* IndexWriter::commit: publish everything buffered.
writer_commit(s, d, ok) ==
    LET s1 == Call(s, "commit")
        w == s.tw[d]
    IN  IF ok
        THEN [s1 EXCEPT !.com[d] = Visible(s.com[d], w.buf),
                        !.tw[d].buf = <<>>]
        ELSE Fail(s1, "CommitFailed")

\* IndexWriter::rollback: back to the last commit.  When it fails the writer is
\* left in an unspecified state: the buffer may or may not be gone.
rollback(s, d, ok, lost) ==
    LET s1 == Call(s, "rollback")
        w == s.tw[d]
        cleared == [s1 EXCEPT !.disc = @ \cup Uids(w.buf),
                              !.tw[d].buf = <<>>]
    IN  IF ok THEN cleared
        ELSE Fail(IF lost THEN cleared ELSE s1, "RollbackFailed")

\* IndexWriter::garbage_collect_files().wait()
garbage_collect_files(s, d, ok) ==
    LET s1 == Call(s, "garbage_collect_files")
    IN  IF ok THEN s1 ELSE Fail(s1, "VacuumFailed")

\* ------------------------------------------- the directory (WriterDirectory)

DiskStates == {"absent", "empty", "index", "ready"}
HasIndex(st) == st \in {"index", "ready"}

\* WriterDirectory::exists
dir_exists(s, d) == s.disk[d] # "absent"

\* SearchIndex::writer: load the descriptor and open an IndexWriter on it.
SearchIndex_writer(s, d, ok) ==
    LET s1 == Call(s, "SearchIndex::writer")
    IN  IF ok /\ s.disk[d] = "ready"
        THEN [s1 EXCEPT !.live[d] = @ + 1]
        ELSE Fail(s1, "GetWriterFailed")

\* std::mem::drop of an IndexWriter: the handle is released; what it had
\* buffered and not committed is gone.
release(s, d, w) ==
    [Call(s, "drop") EXCEPT !.live[d] = @ - 1,
                            !.disc = @ \cup Uids(w.buf)]

\* What a recursive removal that stopped part-way can leave behind.
PartialStates(st) ==
    CASE st = "ready" -> {"ready", "index", "empty"}
      [] st = "index" -> {"index", "empty"}
      [] OTHER -> {st}

\* WriterDirectory::remove
dir_remove(s, d, ok, left) ==
    LET s1 == Call(s, "remove")
    IN  IF s.disk[d] = "absent" THEN s1
        ELSE IF ok
        THEN [s1 EXCEPT !.disk[d] = "absent", !.com[d] = {}]
        ELSE Fail([s1 EXCEPT !.disk[d] = left,
                             !.com[d] = IF HasIndex(left) THEN @ ELSE {}],
                  "DeletionFailed")

\* SearchIndexSchema::new: the key field index must name one of the fields.
schema_new(s, nfields, key_field_index) ==
    LET s1 == Call(s, "SearchIndexSchema::new")
    IN  IF key_field_index < nfields THEN s1 ELSE Fail(s1, "SchemaError")

\* WriterDirectory::tantivy_dir_path(ensure_exists = true)
tantivy_dir_path(s, d, ok) ==
    LET s1 == Call(s, "tantivy_dir_path")
    IN  IF ~ok THEN Fail(s1, "PathError")
        ELSE IF s.disk[d] = "absent" THEN [s1 EXCEPT !.disk[d] = "empty"]
        ELSE s1

\* Index::builder().create_in_dir(..).expect(..): an index that is already
\* there, or any other failure, panics.
create_in_dir(s, d, ok) ==
    LET s1 == Call(s, "create_in_dir")
    IN  IF ok /\ ~HasIndex(s.disk[d])
        THEN [s1 EXCEPT !.disk[d] = "index", !.com[d] = {}]
        ELSE Fail(s1, "panic")

\* SearchIndex::reader
index_reader(s, d, ok) ==
    LET s1 == Call(s, "SearchIndex::reader")
    IN  IF ok THEN s1 ELSE Fail(s1, "ReaderFailed")

\* WriterDirectory::save_index: serialize the descriptor into the directory.
save_index(s, d, ok) ==
    LET s1 == Call(s, "save_index")
    IN  IF ok THEN [s1 EXCEPT !.disk[d] = "ready"] ELSE Fail(s1, "SaveFailed")

\* ------------------------------------------------------- Writer's methods

\* A get_writer that opens a writer on every call and replaces the cached one.
get_writer_always_open(s, d, ok) ==
    LET w == s.tw[d]
        s1 == SearchIndex_writer(s, d, ok)
    IN  IF s1.res # "ok" THEN s1
        ELSE IF w.cached
        THEN release([s1 EXCEPT !.tw[d] = NewWriter], d, w)
        ELSE [s1 EXCEPT !.tw[d] = NewWriter]

\* A get_writer that fills the vacant entry before it knows that the writer
\* could be opened.
get_writer_cache_on_failure(s, d, ok) ==
    IF ~s.tw[d].cached
    THEN [SearchIndex_writer(s, d, ok) EXCEPT !.tw[d] = NewWriter]
    ELSE s

\* Writer::get_writer
get_writer(s, d, ok) ==
    IF ~s.tw[d].cached
    THEN \* Vacant
         LET s1 == SearchIndex_writer(s, d, ok)
         IN  IF s1.res = "ok"
             THEN [s1 EXCEPT !.tw[d] = NewWriter]
             ELSE s1
    ELSE \* Occupied
         s

RECURSIVE delete_terms(_, _, _)
\* the loop of Writer::delete
delete_terms(s, d, ctids) ==
    IF ctids = <<>> THEN s
    ELSE delete_terms(delete_term(s, d, Head(ctids)), d, Tail(ctids))

\* An insert that publishes what it buffered at once.
insert_autocommit(s, d, key, o) ==
    LET s1 == get_writer(s, d, o.fail # "writer")
        s2 == IF s1.res # "ok" THEN s1 ELSE add_document(s1, d, key, o.fail # "add")
    IN  IF s2.res # "ok" THEN s2 ELSE writer_commit(s2, d, TRUE)

\* Writer::insert
insert(s, d, key, o) ==
    LET s1 == get_writer(s, d, o.fail # "writer")
    IN  IF s1.res # "ok" THEN s1 ELSE add_document(s1, d, key, o.fail # "add")

\* Writer::delete
delete(s, d, ctids, o) ==
    LET s1 == get_writer(s, d, o.fail # "writer")
    IN  IF s1.res # "ok" THEN s1 ELSE delete_terms(s1, d, ctids)

\* A drop_index_on_commit that removes the directory and keeps the cached writer.
drop_index_on_commit_keep_writer(s, d, o) ==
    dir_remove(s, d, o.fail # "remove", o.left)

\* Writer::drop_index_on_commit
drop_index_on_commit(s, d, o) ==
    LET w == s.tw[d]
        s1 == IF w.cached
              THEN release([s EXCEPT !.tw[d] = NoWriter], d, w)
              ELSE s
    IN  dir_remove(s1, d, o.fail # "remove", o.left)

\* An engine-level commit that prepares and never finalizes.
engine_commit_prepare_only(s, d, o) ==
    IF o.fail = "exists" THEN Fail(Call(s, "exists"), "ExistsFailed")
    ELSE IF dir_exists(s, d)
    THEN LET s1 == get_writer(Call(s, "exists"), d, o.fail # "writer")
         IN  IF s1.res # "ok" THEN s1 ELSE prepare_commit(s1, d, o.fail # "prepare")
    ELSE Call(Call(s, "exists"), "warn")

\* An engine-level commit that ignores the result of prepare_commit.
engine_commit_ignore_prepare(s, d, o) ==
    IF o.fail = "exists" THEN Fail(Call(s, "exists"), "ExistsFailed")
    ELSE IF dir_exists(s, d)
    THEN LET s1 == get_writer(Call(s, "exists"), d, o.fail # "writer")
             s2 == IF s1.res # "ok" THEN s1 ELSE prepare_commit(s1, d, o.fail # "prepare")
         IN  IF s1.res # "ok" THEN s1
             ELSE writer_commit([s2 EXCEPT !.res = "ok"], d, o.fail # "finalize")
    ELSE Call(Call(s, "exists"), "warn")

\* Writer::commit, lines 88-98: the engine-level commit
engine_commit(s, d, o) ==
    IF o.fail = "exists" THEN Fail(Call(s, "exists"), "ExistsFailed")
    ELSE IF dir_exists(s, d)
    THEN LET s1 == get_writer(Call(s, "exists"), d, o.fail # "writer")
             s2 == IF s1.res # "ok" THEN s1 ELSE prepare_commit(s1, d, o.fail # "prepare")
         IN  IF s2.res # "ok" THEN s2 ELSE writer_commit(s2, d, o.fail # "finalize")
    ELSE Call(Call(s, "exists"), "warn")

\* A commit that returns right after the warning when the directory is absent.
commit_return_when_absent(s, d, o) ==
    LET s1 == engine_commit(s, d, o)
    IN  IF s1.res # "ok" \/ ~dir_exists(s, d) THEN s1
        ELSE IF d \in s1.dr
        THEN drop_index_on_commit([s1 EXCEPT !.dr = @ \ {d}], d, o)
        ELSE s1

\* A commit that swallows the error of the physical deletion.
commit_swallow_deletion_error(s, d, o) ==
    LET s1 == engine_commit(s, d, o)
    IN  IF s1.res # "ok" THEN s1
        ELSE IF d \in s1.dr
        THEN [drop_index_on_commit([s1 EXCEPT !.dr = @ \ {d}], d, o) EXCEPT !.res = "ok"]
        ELSE s1

\* A commit that executes the pending drop whether or not the engine-level
\* commit succeeded.
commit_drop_despite_failure(s, d, o) ==
    LET s1 == engine_commit(s, d, o)
    IN  IF d \in s1.dr
        THEN drop_index_on_commit([s1 EXCEPT !.dr = @ \ {d}], d, o)
        ELSE s1

\* A commit that takes the directory out of drop_requested only once its
\* removal succeeded.
commit_clear_after_remove(s, d, o) ==
    LET s1 == engine_commit(s, d, o)
        s2 == drop_index_on_commit(s1, d, o)
    IN  IF s1.res # "ok" THEN s1
        ELSE IF d \in s1.dr
        THEN IF s2.res # "ok" THEN s2 ELSE [s2 EXCEPT !.dr = @ \ {d}]
        ELSE s1

\* Writer::commit
commit(s, d, o) ==
    LET s1 == engine_commit(s, d, o)
    IN  IF s1.res # "ok" THEN s1
        ELSE IF d \in s1.dr
        THEN drop_index_on_commit([s1 EXCEPT !.dr = @ \ {d}], d, o)
        ELSE s1

\* An abort that forgets to roll the cached writer back.
abort_no_rollback(s, d, o) == [s EXCEPT !.dr = @ \ {d}]

\* An abort that cancels the pending drops of every directory.
abort_clear_all(s, d, o) ==
    LET s1 == IF s.tw[d].cached THEN rollback(s, d, o.fail # "rollback", o.lost) ELSE s
    IN  IF s1.res # "ok" THEN s1 ELSE [s1 EXCEPT !.dr = {}]

\* An abort that evicts the cached writer when its rollback fails.
abort_evict_on_failure(s, d, o) ==
    LET s1 == IF s.tw[d].cached THEN rollback(s, d, o.fail # "rollback", o.lost) ELSE s
    IN  IF s1.res # "ok"
        THEN release([s1 EXCEPT !.tw[d] = NoWriter], d, s1.tw[d])
        ELSE [s1 EXCEPT !.dr = @ \ {d}]

\* Writer::abort
abort(s, d, o) ==
    LET s1 == IF s.tw[d].cached THEN rollback(s, d, o.fail # "rollback", o.lost) ELSE s
    IN  IF s1.res # "ok" THEN s1 ELSE [s1 EXCEPT !.dr = @ \ {d}]

\* Writer::vacuum
vacuum(s, d, o) ==
    LET s1 == get_writer(s, d, o.fail # "writer")
    IN  IF s1.res # "ok" THEN s1 ELSE garbage_collect_files(s1, d, o.fail # "gc")

\* A create_index that validates the schema after the index was created.
create_index_validate_late(s, d, nfields, key_field_index, o) ==
    LET s1 == tantivy_dir_path(s, d, o.fail # "path")
        s2 == IF s1.res # "ok" THEN s1 ELSE create_in_dir(s1, d, o.fail # "create")
        s3 == IF s2.res # "ok" THEN s2 ELSE schema_new(s2, nfields, key_field_index)
        s4 == IF s3.res # "ok" THEN s3 ELSE index_reader(s3, d, o.fail # "reader")
    IN  IF s4.res # "ok" THEN s4 ELSE save_index(s4, d, o.fail # "save")

\* Writer::create_index
create_index(s, d, nfields, key_field_index, o) ==
    LET s1 == schema_new(s, nfields, key_field_index)
        s2 == IF s1.res # "ok" THEN s1 ELSE tantivy_dir_path(s1, d, o.fail # "path")
        s3 == IF s2.res # "ok" THEN s2 ELSE create_in_dir(s2, d, o.fail # "create")
        s4 == IF s3.res # "ok" THEN s3 ELSE index_reader(s3, d, o.fail # "reader")
    IN  IF s4.res # "ok" THEN s4 ELSE save_index(s4, d, o.fail # "save")

\* A drop_index that evicts the cached writer at once.
drop_index_evict_writer(s, d) ==
    [s EXCEPT !.dr = @ \cup {d}, !.tw[d] = NoWriter, !.disc = @ \cup Uids(s.tw[d].buf)]

\* Writer::drop_index
drop_index(s, d) == [s EXCEPT !.dr = @ \cup {d}]

\* ------------------------------------------ Handler<WriterRequest>::handle

\* Writer::new, over the directories of D: nothing cached, nothing pending,
\* nothing on disk.
InitOver(D) ==
    /\ tantivy_writers = [d \in D |-> NoWriter]
    /\ drop_requested = {}
    /\ disk = [d \in D |-> "absent"]
    /\ committed = [d \in D |-> {}]
    /\ live = [d \in D |-> 0]
    /\ nextUid = 1
    /\ discarded = {}
    /\ dropSince = [d \in D |-> FALSE]
    /\ last = [op |-> "Init", dir |-> "none", res |-> "ok", calls |-> <<>>]

Init == InitOver({"d1"})

\* The handler returns: s is the state it leaves and s.res its result.
Install(s, op, d) ==
    /\ tantivy_writers' = s.tw
    /\ drop_requested' = s.dr
    /\ disk' = s.disk
    /\ committed' = s.com
    /\ live' = s.live
    /\ nextUid' = s.nextUid
    /\ discarded' = s.disc
    /\ last' = [op |-> op, dir |-> d, res |-> s.res, calls |-> s.calls]

\* WriterRequest::Insert, of a document whose key value is in K
InsertOf(d, K) ==
    /\ nextUid <= MaxOps
    /\ \E key \in K, o \in [fail : {"none", "writer", "add"}] :
           Install(insert(Cur, d, key, o), "Insert", d)
    /\ UNCHANGED dropSince

Insert(d) == InsertOf(d, Keys)

\* WriterRequest::Delete, of one of the lists of key values of L
DeleteOf(d, L) ==
    \E ctids \in L, o \in [fail : {"none", "writer"}] :
        /\ nextUid + Len(ctids) <= MaxOps + 1
        /\ Install(delete(Cur, d, ctids, o), "Delete", d)
        /\ UNCHANGED dropSince

Delete(d) == DeleteOf(d, KeyLists)

\* WriterRequest::CreateIndex, with a schema of as many fields as a member of N
CreateIndexOf(d, N) ==
    /\ \E nfields \in N :
       \E key_field_index \in 0..nfields :
       \E o \in [fail : IF key_field_index < nfields
                         THEN {"none", "path", "create", "reader", "save"}
                         ELSE {"none"}] :
           Install(create_index(Cur, d, nfields, key_field_index, o), "CreateIndex", d)
    /\ UNCHANGED dropSince

CreateIndex(d) == CreateIndexOf(d, 1..MaxFields)

\* WriterRequest::DropIndex
DropIndex(d) ==
    /\ Install(drop_index(Cur, d), "DropIndex", d)
    /\ dropSince' = [dropSince EXCEPT ![d] = TRUE]

\* WriterRequest::Commit
Commit(d) ==
    /\ \E fail \in {"none", "exists", "writer", "prepare", "finalize", "remove"} :
       \E left \in IF fail = "remove" THEN PartialStates(disk[d]) ELSE {disk[d]} :
           Install(commit(Cur, d, [fail |-> fail, left |-> left]), "Commit", d)
    /\ dropSince' = [dropSince EXCEPT ![d] = @ /\ d \in drop_requested']

\* WriterRequest::Abort
Abort(d) ==
    /\ \E fail \in {"none", "rollback"} :
       \E lost \in IF fail = "rollback" THEN BOOLEAN ELSE {FALSE} :
           Install(abort(Cur, d, [fail |-> fail, lost |-> lost]), "Abort", d)
    /\ dropSince' = [dropSince EXCEPT ![d] = FALSE]

\* WriterRequest::Vacuum
Vacuum(d) ==
    /\ \E o \in [fail : {"none", "writer", "gc"}] :
           Install(vacuum(Cur, d, o), "Vacuum", d)
    /\ UNCHANGED dropSince

Next ==
    \/ \E d \in Dirs : Insert(d)
    \/ \E d \in Dirs : Delete(d)
    \/ \E d \in Dirs : CreateIndex(d)
    \/ \E d \in Dirs : DropIndex(d)
    \/ \E d \in Dirs : Commit(d)
    \/ \E d \in Dirs : Abort(d)
    \/ \E d \in Dirs : Vacuum(d)

Spec == Init /\ [][Next]_vars

\* Writer::new, serving two directories.
InitTwo == InitOver({"d1", "d2"})

\* The key values of the runs over two directories, and the lists of them
\* that a Delete carries there.
KeysTwo == 1..MaxOpsTwo
KeyListsTwo == {<<>>} \cup {<<k>> : k \in KeysTwo}

\* The same requests, addressed to either directory, every schema of one
\* field.
NextTwo ==
    \/ \E d \in Dirs : InsertOf(d, KeysTwo) /\ nextUid' <= MaxOpsTwo + 1
    \/ \E d \in Dirs : DeleteOf(d, KeyListsTwo) /\ nextUid' <= MaxOpsTwo + 1
    \/ \E d \in Dirs : CreateIndexOf(d, {1})
    \/ \E d \in Dirs : DropIndex(d)
    \/ \E d \in Dirs : Commit(d)
    \/ \E d \in Dirs : Abort(d)
    \/ \E d \in Dirs : Vacuum(d)

SpecTwo == InitTwo /\ [][NextTwo]_vars

\* ---------------------------------------------------------------- typing
\* The shape of every reachable state.
TypeOK ==
    /\ drop_requested \subseteq Dirs
    /\ \A d \in Dirs :
        /\ disk[d] \in DiskStates
        /\ tantivy_writers[d].cached \in BOOLEAN
        /\ ~tantivy_writers[d].cached => tantivy_writers[d].buf = <<>>
        /\ ~HasIndex(disk[d]) => committed[d] = {}
        /\ tantivy_writers[d].cached => disk[d] = "ready"
    /\ nextUid \in 1..(MaxOps + 1)

\* ------------------------------------------------------------- the claims

\* The request that made this step was `op`, addressed to d.
Did(op, d) == last'.op = op /\ last'.dir = d

\* The buffer of d's cached writer (empty when none is cached).
Buf(d) == tantivy_writers[d].buf

\* The identities of a set of documents.
DocUids(docs) == {doc.uid : doc \in docs}

\* One buffered mutation applied to a set of documents.
Apply(docs, m) ==
    IF m.kind = "add"
    THEN docs \cup {[key |-> m.key, uid |-> m.uid]}
    ELSE {doc \in docs : doc.key # m.key}

RECURSIVE ApplyInOrder(_, _)
\* The mutations of buf applied to docs one after the other, in program order.
ApplyInOrder(docs, buf) ==
    IF buf = <<>> THEN docs
    ELSE ApplyInOrder(Apply(docs, Head(buf)), Tail(buf))

\* buf2 is buf1 with zero or more mutations appended.
Extends(buf2, buf1) ==
    /\ Len(buf2) >= Len(buf1)
    /\ SubSeq(buf2, 1, Len(buf1)) = buf1

\* C1: after an Abort(d) that returns success the writer of d buffers nothing,
\* the visible documents of d are what they were, and everything the writer
\* had buffered is discarded; a discarded mutation is never buffered again and
\* never visible, and a visible document disappears only when the directory's
\* index is removed or a delete that was not discarded is published.
C1_AbortDiscards ==
    /\ [][\A d \in Dirs :
            /\ (Did("Abort", d) /\ last'.res = "ok") =>
                  /\ Buf(d)' = <<>>
                  /\ committed'[d] = committed[d]
                  /\ Uids(Buf(d)) \subseteq discarded'
            /\ \A doc \in committed[d] \ committed'[d] :
                  \/ ~HasIndex(disk'[d])
                  \/ \E i \in 1..Len(Buf(d)) :
                        /\ Buf(d)[i].kind = "del"
                        /\ Buf(d)[i].key = doc.key
                        /\ Buf(d)[i].uid \notin discarded']_vars
    /\ [](\A d \in Dirs :
            discarded \cap (Uids(Buf(d)) \cup DocUids(committed[d])) = {})

\* C1 witness: a successful Abort has discarded buffered mutations of a
\* directory that has committed documents.
C1_Witness ==
    /\ last.op = "Abort" /\ last.res = "ok"
    /\ Called(last.calls, "rollback")
    /\ discarded # {}
    /\ committed[last.dir] # {}

\* C2: no implicit commit.  A request other than Commit(d) leaves the visible
\* documents of d unchanged, and Insert(d) and Delete(d) only append to the
\* buffer of d's writer.
C2_NoImplicitCommit ==
    [][\A d \in Dirs :
        /\ ~Did("Commit", d) => committed'[d] = committed[d]
        /\ (Did("Insert", d) \/ Did("Delete", d)) => Extends(Buf(d)', Buf(d))]_vars

\* C2 witness: an Insert has buffered a document next to committed ones, and
\* the buffered document is not visible.
C2_Witness ==
    /\ last.op = "Insert" /\ last.res = "ok"
    /\ committed[last.dir] # {}
    /\ Uids(Buf(last.dir)) # {}
    /\ Uids(Buf(last.dir)) \cap DocUids(committed[last.dir]) = {}

\* C3: a Commit(d) that succeeds on an existing directory that is not
\* drop-pending leaves visible the previously visible documents with the
\* buffered mutations applied in program order, and leaves the buffer empty.
C3_CommitAppliesInOrder ==
    [][\A d \in Dirs :
        (/\ Did("Commit", d) /\ last'.res = "ok"
         /\ disk[d] # "absent"
         /\ d \notin drop_requested)
        => /\ committed'[d] = ApplyInOrder(committed[d], Buf(d))
           /\ Buf(d)' = <<>>]_vars

\* C3 witness: the scenario's outcome.  Three mutations were issued, the
\* second one inserted key 2, and after a successful Commit that document is
\* the only one visible.
C3_Witness ==
    /\ last.op = "Commit" /\ last.res = "ok"
    /\ Called(last.calls, "commit")
    /\ nextUid = 4
    /\ committed[last.dir] = {[key |-> 2, uid |-> 2]}

\* C4: DropIndex(d) followed by Abort(d) leaves the index intact.  An Abort(d),
\* whatever it returns, leaves d's directory and visible documents as they
\* were, and a Commit(d) physically removes an existing directory only if
\* DropIndex(d) was requested after the last Abort(d).
C4_DropThenAbortKeepsIndex ==
    [][\A d \in Dirs :
        /\ Did("Abort", d) =>
              /\ disk'[d] = disk[d]
              /\ committed'[d] = committed[d]
        /\ (Did("Commit", d) /\ Called(last'.calls, "remove") /\ disk[d] # "absent")
              => dropSince[d]]_vars

\* C5: after every Abort(d), whatever the rollback returned, d is not in the
\* Drop-Pending Set.
C5_AbortClearsDropPending ==
    last.op = "Abort" => last.dir \notin drop_requested

\* C6: a Commit(d) that returns success in a state where d is drop-pending
\* leaves no directory on disk, no cached writer and no live writer handle for
\* d, and d out of the Drop-Pending Set.
C6_DropThenCommitRemoves ==
    [][\A d \in Dirs :
        (Did("Commit", d) /\ last'.res = "ok" /\ d \in drop_requested)
        => /\ disk'[d] = "absent"
           /\ tantivy_writers'[d] = NoWriter
           /\ live'[d] = 0
           /\ d \notin drop_requested']_vars

\* C6 witness: a successful Commit has released the cached writer of a
\* drop-pending directory and removed the directory.
C6_Witness ==
    /\ last.op = "Commit" /\ last.res = "ok"
    /\ Called(last.calls, "commit")
    /\ Called(last.calls, "drop")
    /\ Called(last.calls, "remove")
    /\ disk[last.dir] = "absent"

\* What C7 says of a Commit(d) that found no directory: success, no writer
\* opened, no prepare and no finalize, no writer left cached, the pending drop
\* of d processed and cleared.
CommitOnAbsentOk(d) ==
    /\ last'.res = "ok"
    /\ ~Called(last'.calls, "SearchIndex::writer")
    /\ ~Called(last'.calls, "prepare_commit")
    /\ ~Called(last'.calls, "commit")
    /\ tantivy_writers'[d] = NoWriter
    /\ d \in drop_requested => Called(last'.calls, "remove")
    /\ d \notin drop_requested'

\* C7 as stated: every Commit(d) on a directory that does not exist on disk
\* succeeds without an engine-level commit and processes the pending drop.
C7_CommitOnAbsent_AsStated ==
    [][\A d \in Dirs :
        (Did("Commit", d) /\ disk[d] = "absent") => CommitOnAbsentOk(d)]_vars

\* C7 as amended: a Commit(d) whose existence check reports that the directory
\* does not exist succeeds without an engine-level commit and processes the
\* pending drop; a Commit(d) whose existence check itself fails returns that
\* error and changes nothing.
C7_CommitOnAbsent ==
    [][\A d \in Dirs :
        /\ (Did("Commit", d) /\ disk[d] = "absent"
                /\ ~Called(last'.calls, "ExistsFailed"))
              => CommitOnAbsentOk(d)
        /\ (Did("Commit", d) /\ Called(last'.calls, "ExistsFailed"))
              => /\ last'.res = "ExistsFailed"
                 /\ UNCHANGED <<tantivy_writers, drop_requested, disk, committed,
                                live, discarded>>]_vars

\* C7 witness: a Commit on a directory that is not on disk returned success
\* and processed the pending drop.
C7_Witness ==
    /\ last.op = "Commit" /\ last.res = "ok"
    /\ Called(last.calls, "warn")
    /\ Called(last.calls, "remove")
    /\ last.dir \notin drop_requested

\* C8: in Commit(d) finalize is called only after prepare succeeded; when
\* prepare or finalize fails, Commit returns an error, the visible documents
\* are unchanged, and the writer stays cached with its buffer intact (still
\* there for a later Commit or Abort) and d's Drop-Pending entry untouched.
C8_CommitFailureKeepsBuffer ==
    [][\A d \in Dirs : Did("Commit", d) =>
        /\ Called(last'.calls, "commit") =>
              /\ Called(last'.calls, "prepare_commit")
              /\ ~Called(last'.calls, "PrepareFailed")
        /\ (Called(last'.calls, "PrepareFailed") \/ Called(last'.calls, "CommitFailed"))
              => /\ last'.res \in {"PrepareFailed", "CommitFailed"}
                 /\ committed'[d] = committed[d]
                 /\ tantivy_writers'[d].cached
                 /\ Buf(d)' = Buf(d)
                 /\ discarded' = discarded
                 /\ (d \in drop_requested') = (d \in drop_requested)]_vars

\* C8 witness: finalize failed after prepare succeeded, the Commit returned the
\* error and the buffered mutations are still in the writer.
C8_Witness ==
    /\ last.op = "Commit" /\ last.res = "CommitFailed"
    /\ Called(last.calls, "prepare_commit")
    /\ Buf(last.dir) # <<>>

\* C9: when a Commit(d) has published the buffered mutations and the physical
\* deletion of the drop-pending d then fails, Commit returns the error, and
\* the published mutations are neither discarded nor back in a buffer; as long
\* as the failed removal left the index files, the documents they made
\* visible are visible.
C9_DeletionFailureKeepsCommit ==
    [][\A d \in Dirs :
        (/\ Did("Commit", d)
         /\ Called(last'.calls, "commit")
         /\ ~Called(last'.calls, "CommitFailed")
         /\ Called(last'.calls, "DeletionFailed"))
        => /\ last'.res = "DeletionFailed"
           /\ Uids(Buf(d)) \cap discarded' = {}
           /\ Buf(d)' = <<>>
           /\ HasIndex(disk'[d]) => committed'[d] = ApplyInOrder(committed[d], Buf(d))]_vars

\* C9 witness: the deletion failed after a commit that published documents,
\* the Commit returned DeletionFailed and the documents are visible.
C9_Witness ==
    /\ last.op = "Commit" /\ last.res = "DeletionFailed"
    /\ Called(last.calls, "commit")
    /\ committed[last.dir] # {}
    /\ DocUids(committed[last.dir]) \cap discarded = {}

\* C10: a directory never has more than one live writer handle, and it has one
\* exactly when a writer is cached for it; a request that acquires the writer
\* of a directory that has one cached opens no new writer and (Insert, Delete,
\* Vacuum) finds the buffered mutations in it; a writer is opened only while
\* the directory has no live handle.
C10_OneWriterPerDirectory ==
    /\ [](\A d \in Dirs :
            /\ live[d] <= 1
            /\ (live[d] = 1) = tantivy_writers[d].cached)
    /\ [][\A d \in Dirs :
            /\ (tantivy_writers[d].cached /\ last'.dir = d)
                  => ~Called(last'.calls, "SearchIndex::writer")
            /\ (tantivy_writers[d].cached
                    /\ (Did("Insert", d) \/ Did("Delete", d) \/ Did("Vacuum", d)))
                  => /\ tantivy_writers'[d].cached
                     /\ Extends(Buf(d)', Buf(d))
            /\ (last'.dir = d /\ Called(last'.calls, "SearchIndex::writer"))
                  => live[d] = 0]_vars

\* C10 witness: an Insert found the cached writer with a mutation buffered in
\* it, opened no writer and appended to that buffer.
C10_Witness ==
    /\ last.op = "Insert" /\ last.res = "ok"
    /\ ~Called(last.calls, "SearchIndex::writer")
    /\ Len(Buf(last.dir)) >= 2
    /\ live[last.dir] = 1

\* C11: a Commit(d) that executes the pending drop of d leaves no cached writer
\* and no live handle for d, and whatever the released writer still buffered
\* is discarded; a request that then acquires the writer of d either returns
\* GetWriterFailed and caches nothing, or opens a new writer whose buffer
\* holds only the mutations of that request; a discarded mutation is never
\* visible and never in a buffer.
C11_NoResurrectionAfterDrop ==
    /\ [][\A d \in Dirs :
            /\ (Did("Commit", d) /\ Called(last'.calls, "remove")) =>
                  /\ tantivy_writers'[d] = NoWriter
                  /\ live'[d] = 0
                  /\ ~Called(last'.calls, "commit") => Uids(Buf(d)) \subseteq discarded'
            /\ (last'.dir = d /\ ~tantivy_writers[d].cached
                    /\ last'.op \in {"Insert", "Delete", "Vacuum", "Commit"}) =>
                  \/ tantivy_writers'[d] = NoWriter
                  \/ /\ Called(last'.calls, "SearchIndex::writer")
                     /\ ~Called(last'.calls, "GetWriterFailed")
                     /\ Uids(Buf(d)') \subseteq nextUid..(nextUid' - 1)]_vars
    /\ [](\A d \in Dirs :
            /\ discarded \cap DocUids(committed[d]) = {}
            /\ discarded \cap Uids(Buf(d)) = {})

\* C11 witness: mutations were issued, so a writer was once open on the
\* directory; the directory is gone, which only an executed drop does; the
\* Insert that then acquired the writer failed and nothing is cached.
C11_Witness ==
    /\ last.op = "Insert" /\ last.res = "GetWriterFailed"
    /\ nextUid > 1
    /\ disk[last.dir] = "absent"
    /\ tantivy_writers[last.dir] = NoWriter

\* No collaborator call of the handler was made twice (the calls of a loop
\* over the request's key values apart).
NoRetry(calls) ==
    \A i, j \in 1..Len(calls) :
        (i # j /\ calls[i] = calls[j]) => calls[i] = "delete_term"

\* C12: every failure of an operation is returned to the caller as an error
\* result: no handler panics and none retries a call; and a CreateIndex(d)
\* on a directory that already holds an index returns an error and leaves the
\* index and its documents as they were.
C12_FailuresAreReturned ==
    [][/\ last'.res # "panic"
       /\ NoRetry(last'.calls)
       /\ \A d \in Dirs :
            (Did("CreateIndex", d) /\ HasIndex(disk[d])
                /\ Called(last'.calls, "create_in_dir"))
            => /\ last'.res # "ok"
               /\ disk'[d] = disk[d]
               /\ committed'[d] = committed[d]]_vars

\* C13: directories are independent: a request addressed to d, whatever it
\* is and however it ends, leaves the cached writer of every other directory
\* e, its buffered mutations, its committed contents, its files and its
\* membership of drop_requested as they were.
C13_DirectoriesIndependent ==
    [][\A e \in Dirs \ {last'.dir} :
              /\ tantivy_writers'[e] = tantivy_writers[e]
              /\ committed'[e] = committed[e]
              /\ disk'[e] = disk[e]
              /\ live'[e] = live[e]
              /\ (e \in drop_requested') = (e \in drop_requested)]_vars

C13_Witness ==
    /\ last.op = "Abort" /\ last.dir = "d1" /\ last.res = "ok"
    /\ "d2" \in Dirs
    /\ "d2" \in drop_requested
    /\ tantivy_writers["d2"].buf # <<>>

\* C14: DropIndex(d) always succeeds and only adds d to drop_requested: it
\* calls nothing, touches no file, creates and removes no writer, and leaves
\* the buffered and the committed contents alone; on a d that is already
\* pending it leaves the whole state unchanged. Apart from that,
\* drop_requested is changed only by Commit(d) and Abort(d), which only
\* remove d from it.
C14_DropIndexOnlyMarks ==
    [][/\ \A d \in Dirs :
            Did("DropIndex", d) =>
                /\ last'.res = "ok"
                /\ last'.calls = <<>>
                /\ drop_requested' = drop_requested \cup {d}
                /\ tantivy_writers' = tantivy_writers
                /\ disk' = disk
                /\ committed' = committed
                /\ live' = live
                /\ discarded' = discarded
                /\ nextUid' = nextUid
       /\ (last'.op # "DropIndex" /\ drop_requested' # drop_requested) =>
                /\ last'.op \in {"Commit", "Abort"}
                /\ last'.dir \in drop_requested
                /\ drop_requested' = drop_requested \ {last'.dir}]_vars

C14_Witness ==
    /\ last.op = "DropIndex" /\ last.res = "ok"
    /\ last.dir \in drop_requested
    /\ tantivy_writers[last.dir].buf # <<>>
    /\ committed[last.dir] # {}
    /\ disk[last.dir] = "ready"

\* Where the first call of that name stands in the trace of a handler.
Pos(calls, name) == CHOOSE i \in 1..Len(calls) : calls[i] = name

\* The results of a Commit whose engine-level commit did not succeed.
EngineCommitErrors == {"ExistsFailed", "GetWriterFailed", "PrepareFailed", "CommitFailed"}

\* C15: in Commit(d) of a drop-pending d whose directory exists the steps
\* come in the order prepare, finalize, release of the cached writer, removal
\* of the directory; and when the engine-level commit fails, no writer is
\* discarded, no file is deleted and d stays in drop_requested.
C15_DropAfterCommitInOrder ==
    [][\A d \in Dirs :
          (Did("Commit", d) /\ d \in drop_requested /\ disk[d] # "absent") =>
              LET c == last'.calls
              IN  /\ last'.res \notin EngineCommitErrors =>
                        /\ Called(c, "prepare_commit") /\ Called(c, "commit")
                        /\ Called(c, "drop") /\ Called(c, "remove")
                        /\ Pos(c, "prepare_commit") < Pos(c, "commit")
                        /\ Pos(c, "commit") < Pos(c, "drop")
                        /\ Pos(c, "drop") < Pos(c, "remove")
                        /\ NoRetry(c)
                  /\ last'.res \in EngineCommitErrors =>
                        /\ ~Called(c, "drop") /\ ~Called(c, "remove")
                        /\ tantivy_writers[d].cached => tantivy_writers'[d].cached
                        /\ live'[d] >= live[d]
                        /\ discarded' = discarded
                        /\ disk' = disk
                        /\ d \in drop_requested']_vars

C15_Witness ==
    /\ last.op = "Commit" /\ last.res = "ok"
    /\ last.calls = <<"exists", "prepare_commit", "commit", "drop", "remove">>
    /\ disk[last.dir] = "absent"
    /\ last.dir \notin drop_requested

\* C16: an entry of tantivy_writers for d is created only by a successful
\* acquire in Insert, Delete, Vacuum or a Commit on an existing directory, and
\* is removed only by a Commit(d) that executes a pending drop; Abort(d)
\* neither creates nor evicts a writer, also when the rollback fails, and with
\* no cached writer it rolls nothing back and succeeds; DropIndex and
\* CreateIndex leave the cache as it was.
C16_CacheLifecycle ==
    [][\A d \in Dirs :
          /\ (~tantivy_writers[d].cached /\ tantivy_writers'[d].cached) =>
                /\ last'.dir = d
                /\ last'.op \in {"Insert", "Delete", "Vacuum", "Commit"}
                /\ last'.op = "Commit" => disk[d] # "absent"
                /\ Called(last'.calls, "SearchIndex::writer")
                /\ ~Called(last'.calls, "GetWriterFailed")
          /\ (tantivy_writers[d].cached /\ ~tantivy_writers'[d].cached) =>
                /\ Did("Commit", d)
                /\ d \in drop_requested
                /\ Called(last'.calls, "drop")
          /\ Did("Abort", d) =>
                /\ tantivy_writers'[d].cached = tantivy_writers[d].cached
                /\ live' = live
                /\ ~tantivy_writers[d].cached =>
                      /\ last'.res = "ok"
                      /\ last'.calls = <<>>
                      /\ tantivy_writers' = tantivy_writers
          /\ (last'.op \in {"DropIndex", "CreateIndex"}) =>
                /\ tantivy_writers' = tantivy_writers
                /\ live' = live]_vars

C16_Witness ==
    /\ last.op = "Abort" /\ last.res = "RollbackFailed"
    /\ tantivy_writers[last.dir].cached
    /\ live[last.dir] = 1

\* How many calls of that name the trace of a handler holds.
Count(calls, name) == Cardinality({i \in 1..Len(calls) : calls[i] = name})

\* C17: a CreateIndex(d) whose key_field_index names no field of the schema
\* fails with an error before anything is created: the schema constructor is
\* the only call made, no file of d is written, and the cache and
\* drop_requested are unchanged; a successful CreateIndex(d) saves the
\* descriptor exactly once and leaves the cache and drop_requested unchanged
\* too.
C17_CreateIndexValidatesFirst ==
    [][\A d \in Dirs :
          Did("CreateIndex", d) =>
              /\ Called(last'.calls, "SchemaError") =>
                    /\ last'.res = "SchemaError"
                    /\ last'.calls = <<"SearchIndexSchema::new", "SchemaError">>
                    /\ disk' = disk
                    /\ committed' = committed
              /\ last'.res = "ok" =>
                    /\ Count(last'.calls, "save_index") = 1
                    /\ Count(last'.calls, "create_in_dir") = 1
                    /\ Pos(last'.calls, "SearchIndexSchema::new") = 1
                    /\ disk'[d] = "ready"
              /\ last'.res # "ok" => Count(last'.calls, "save_index") <= 1
              /\ tantivy_writers' = tantivy_writers
              /\ drop_requested' = drop_requested
              /\ live' = live]_vars

C17_Witness ==
    /\ last.op = "CreateIndex" /\ last.res = "SchemaError"
    /\ disk[last.dir] = "absent"
    /\ last.dir \in drop_requested

\* C18: when acquiring the writer of d fails, the Insert, Delete, Vacuum or
\* Commit that asked for it returns the error and the whole state is as
\* before: no entry is cached for d, nothing is buffered or committed, and
\* drop_requested is untouched; the next request on d opens the writer anew.
C18_FailedAcquireChangesNothing ==
    [][\A d \in Dirs :
          /\ (last'.dir = d /\ Called(last'.calls, "GetWriterFailed")) =>
                /\ last'.op \in {"Insert", "Delete", "Vacuum", "Commit"}
                /\ last'.res = "GetWriterFailed"
                /\ tantivy_writers' = tantivy_writers
                /\ ~tantivy_writers'[d].cached
                /\ committed' = committed
                /\ drop_requested' = drop_requested
                /\ disk' = disk
                /\ live' = live
                /\ nextUid' = nextUid
                /\ discarded' = discarded
          /\ (last'.dir = d /\ ~tantivy_writers[d].cached
                  /\ last'.op \in {"Insert", "Delete", "Vacuum"}) =>
                last'.calls[1] = "SearchIndex::writer"]_vars

C18_Witness ==
    /\ last.op = "Commit" /\ last.res = "GetWriterFailed"
    /\ last.dir \in drop_requested
    /\ disk[last.dir] = "ready"
    /\ ~tantivy_writers[last.dir].cached
    /\ committed[last.dir] # {}

\* C19: when the removal of the directory fails in the Commit(d) of a
\* drop-pending d, d is already out of drop_requested and its writer already
\* evicted from the cache in the state left behind; a Commit(d) attempts the
\* removal only for a d in drop_requested, and d gets into drop_requested
\* only by DropIndex(d), so a later Commit(d) does not try the deletion again
\* unless DropIndex(d) is issued again.
C19_FailedRemovalNotRetried ==
    [][\A d \in Dirs :
          /\ (Did("Commit", d) /\ Called(last'.calls, "DeletionFailed")) =>
                /\ last'.res = "DeletionFailed"
                /\ d \in drop_requested
                /\ d \notin drop_requested'
                /\ tantivy_writers'[d] = NoWriter
                /\ live'[d] = 0
          /\ (last'.dir = d /\ Called(last'.calls, "remove")) =>
                /\ last'.op = "Commit"
                /\ d \in drop_requested
                /\ Count(last'.calls, "remove") = 1
          /\ (d \notin drop_requested /\ d \in drop_requested') =>
                Did("DropIndex", d)]_vars

C19_Witness ==
    /\ last.op = "Commit" /\ last.res = "DeletionFailed"
    /\ Called(last.calls, "drop")
    /\ last.dir \notin drop_requested
    /\ disk[last.dir] = "ready"
    /\ ~tantivy_writers[last.dir].cached

====
